---- MODULE Spec2Model ----
(***************************************************************************)
(* qdrant-up (src/qdrant-up/src/main.rs): load points from a JSON file,    *)
(* normalise the endpoint, build the client, provision the collection and  *)
(* upsert the points in batches, printing one progress line per batch and  *)
(* a final done line.                                                      *)
(*                                                                         *)
(* The machine word (usize) is scaled down to WordBits bits; a dataset has  *)
(* at most isize::MAX points, less than half the word's range, as a Vec    *)
(* has in the program, so that len + batch_size overflows only for a batch *)
(* size above len.                                                         *)
(***************************************************************************)
EXTENDS Integers, Sequences, FiniteSets, TLC

\* ---------------------------------------------------------------- bounds
MaxPoints == 5
WordBits == 4
MaxRuns == 2

\* ------------------------------------------------------ program constants
GrpcPort == 6334
DefaultDimensions == 768

WordModulus == 2 ^ WordBits
MaxWord == WordModulus - 1

\* isize::MAX: a Vec holds at most that many bytes, hence fewer points.
MaxLen == (WordModulus \div 2) - 1

Min(a, b) == IF a < b THEN a ELSE b

\* ------------------------------------------------------------------ URLs
\* An endpoint string is kept as its lexical parts: scheme ("" when the
\* string has no "scheme:" prefix), whether "//" follows the colon, the host
\* text, the port text (<<>> when there is no ":port", <<n>> otherwise) and
\* the rest.

SpecialSchemes == {"http", "https", "ws", "wss", "ftp", "file"}

\* url crate: ASCII lower-casing of the scheme and of a special scheme's host.
Lower(s) ==
  CASE s = "HTTPS" -> "https"
    [] s = "DB.Example" -> "db.example"
    [] OTHER -> s

\* url crate: the default port of a special scheme, <<>> when it has none.
DefaultPort(scheme) ==
  CASE scheme \in {"http", "ws"} -> <<80>>
    [] scheme \in {"https", "wss"} -> <<443>>
    [] scheme = "ftp" -> <<21>>
    [] OTHER -> <<>>

UrlErr(e) == [ok |-> FALSE, err |-> e]

\* url crate: what is left of a path once its leading slashes are skipped.
SkipSlashes(path) ==
  CASE path = "/v1" -> "v1"
    [] path = "/" -> ""
    [] OTHER -> path

\* Url::parse (line 67). A parsed URL keeps its port only when it differs
\* from the scheme's default port. After a special scheme every leading slash
\* is skipped, so that with nothing between "//" and the path the first path
\* segment is read as the host; a file URL and a URL of another scheme with
\* nothing there have no host. A file URL has no port: the ":" of one is not
\* a character of a host.
UrlParse(s) ==
  LET scheme == Lower(s.scheme)
      special == scheme \in SpecialSchemes
  IN  IF s.scheme = "" THEN UrlErr("RelativeUrlWithoutBase")
      ELSE IF ~s.slashes /\ ~special
        THEN [ok |-> TRUE, scheme |-> scheme, has_host |-> FALSE, host |-> "",
              port |-> <<>>, path |-> s.path]
      ELSE IF scheme = "file" /\ s.port # <<>> THEN UrlErr("IdnaError")
      ELSE IF s.host = "" /\ s.port # <<>> THEN UrlErr("EmptyHost")
      ELSE IF s.host = "" /\ (scheme = "file" \/ ~special)
        THEN [ok |-> TRUE, scheme |-> scheme, has_host |-> FALSE, host |-> "",
              port |-> <<>>,
              path |-> IF special /\ s.path = "" THEN "/" ELSE s.path]
      ELSE IF s.host = "" /\ SkipSlashes(s.path) = "" THEN UrlErr("EmptyHost")
      ELSE IF s.host = ""
        THEN [ok |-> TRUE, scheme |-> scheme, has_host |-> TRUE,
              host |-> Lower(SkipSlashes(s.path)), port |-> <<>>, path |-> "/"]
      ELSE IF s.port # <<>> /\ s.port[1] > 65535 THEN UrlErr("InvalidPort")
      ELSE [ok |-> TRUE, scheme |-> scheme, has_host |-> TRUE,
            host |-> IF special THEN Lower(s.host) ELSE s.host,
            port |-> IF s.port = DefaultPort(scheme) THEN <<>> ELSE s.port,
            path |-> IF special /\ s.path = "" THEN "/" ELSE s.path]

\* Url::set_port (line 71): refused on a URL without a host, stored as absent
\* when it is the scheme's default.
UrlSetPort(u, p) ==
  IF ~u.has_host \/ u.host = "" \/ u.scheme = "file"
  THEN UrlErr("SetPort")
  ELSE [u EXCEPT !.port = IF <<p>> = DefaultPort(u.scheme) THEN <<>> ELSE <<p>>]

\* Url::to_string (line 74): the parts the serialisation writes.
UrlToString(u) ==
  [ok |-> TRUE, scheme |-> u.scheme, host |-> u.host, port |-> u.port,
   path |-> u.path]

\* ensure_grpc_port (lines 66-75).
ensure_grpc_port(url_str) ==
  LET parsed == UrlParse(url_str)
  IN  IF ~parsed.ok THEN UrlErr("Invalid URL")
      ELSE IF parsed.port = <<>>
        THEN LET set == UrlSetPort(parsed, GrpcPort)
             IN  IF ~set.ok THEN UrlErr("Failed to set port")
                 ELSE UrlToString(set)
      ELSE UrlToString(parsed)

HierUrls ==
  { u \in [scheme : {"http", "https", "HTTPS", "grpc", "file"},
           slashes : {TRUE},
           host : {"db.example", "DB.Example", ""},
           port : {<<>>, <<80>>, <<443>>, <<6333>>, <<6334>>, <<70000>>},
           path : {"", "/", "/v1"}] :
      u.host = "" => Lower(u.scheme) \in SpecialSchemes }

\* "localhost:6334" and "mailto:ops@db.example": a scheme and an opaque rest.
OpaqueUrls ==
  { [scheme |-> "localhost", slashes |-> FALSE, host |-> "", port |-> <<>>,
     path |-> "6334"],
    [scheme |-> "mailto", slashes |-> FALSE, host |-> "", port |-> <<>>,
     path |-> "ops@db.example"] }

\* "db.example" and "db.example/v1": no scheme.
RelativeUrls ==
  { [scheme |-> "", slashes |-> FALSE, host |-> "db.example", port |-> <<>>,
     path |-> p] : p \in {"", "/v1"} }

UrlInputs == HierUrls \cup OpaqueUrls \cup RelativeUrls

\* The endpoints of the pipeline runs.
RunUrls ==
  { [scheme |-> "https", slashes |-> TRUE, host |-> "db.example",
     port |-> <<>>, path |-> ""],
    [scheme |-> "http", slashes |-> TRUE, host |-> "db.example",
     port |-> <<6334>>, path |-> ""],
    [scheme |-> "", slashes |-> FALSE, host |-> "db.example", port |-> <<>>,
     path |-> ""] }

\* ---------------------------------------------------------------- input
\* serde_json::Value of a point's payload: an object or another JSON value.
PointOf(i, is_object) ==
  [id |-> i, vector |-> <<i>>,
   payload |-> [kind |-> IF is_object THEN "object" ELSE "number", val |-> i]]

\* A parsed input file of n points; the point at position bad (0: none) has a
\* payload that is not a JSON object.
Dataset(n, bad) == [i \in 1..n |-> PointOf(i, i # bad)]

InputFiles ==
  { [kind |-> "unreadable", points |-> <<>>],
    [kind |-> "malformed", points |-> <<>>] }
  \cup UNION { { [kind |-> "ok", points |-> Dataset(n, bad)] : bad \in 0..n } :
                 n \in 0..Min(MaxPoints, MaxLen) }

Compressions == {"none", "gzip", "zstd", "lz4"}

ArgSets ==
  [url : RunUrls, batch_size : 0..MaxWord, compression : Compressions,
   dimensions : {DefaultDimensions}]

\* ------------------------------------------------------------ conversions
\* Payload::try_from(serde_json::Value) (line 142): only an object converts.
PayloadTryFrom(v) ==
  IF v.kind = "object" THEN [ok |-> TRUE, map |-> v.val]
  ELSE [ok |-> FALSE, map |-> 0]

\* PointStruct::new (lines 139-143); the unwrap has succeeded.
PointStructNew(p) ==
  [id |-> p.id, vector |-> p.vector, payload |-> PayloadTryFrom(p.payload).map]

\* A faulty variant: the chunks are taken from the end of the slice (rchunks).
ChunksNextFromEnd(points, at, chunk_size) ==
  IF at >= Len(points) THEN <<>>
  ELSE SubSeq(points, Len(points) - at - Min(Len(points) - at, chunk_size) + 1,
              Len(points) - at)

\* A faulty variant: only full chunks are yielded (chunks_exact).
ChunksNextExact(points, at, chunk_size) ==
  IF Len(points) - at < chunk_size \/ at >= Len(points) THEN <<>>
  ELSE SubSeq(points, at + 1, at + chunk_size)

\* Chunks::next on the slice (line 135): the next chunk_size points after the
\* first `at`, <<>> at the end of the slice.
ChunksNext(points, at, chunk_size) ==
  IF at >= Len(points) THEN <<>>
  ELSE SubSeq(points, at + 1, at + Min(Len(points) - at, chunk_size))

\* A faulty variant: the quotient plus one, whatever the remainder.
TotalBatchesPlusOne(len, batch_size, overflow_checks) ==
  IF batch_size = 0 THEN [ok |-> FALSE, value |-> 0]
  ELSE [ok |-> TRUE, value |-> (len \div batch_size) + 1]

\* A faulty variant: a zero divisor yields 0 batches instead of a panic.
TotalBatchesZeroOk(len, batch_size, overflow_checks) ==
  LET sum == len + batch_size
      wrapped == ((sum % WordModulus) + WordModulus - 1) % WordModulus
  IN  IF batch_size = 0 THEN [ok |-> TRUE, value |-> 0]
      ELSE IF overflow_checks /\ sum > MaxWord THEN [ok |-> FALSE, value |-> 0]
      ELSE [ok |-> TRUE, value |-> wrapped \div batch_size]

\* (len + batch_size - 1) / batch_size on usize (line 133). With overflow
\* checks the additions panic on overflow; without them they wrap. The
\* division panics on a zero divisor in both builds.
TotalBatches(len, batch_size, overflow_checks) ==
  LET sum == len + batch_size
      wrapped == ((sum % WordModulus) + WordModulus - 1) % WordModulus
  IN  IF overflow_checks /\ (sum > MaxWord \/ sum - 1 < 0)
        THEN [ok |-> FALSE, value |-> 0]
      ELSE IF batch_size = 0 THEN [ok |-> FALSE, value |-> 0]
      ELSE [ok |-> TRUE, value |-> wrapped \div batch_size]

\* ----------------------------------------------------------------- state
VARIABLES
  args,           \* Args (lines 25-52)
  input,          \* the input file
  store,          \* the remote store: collection present, the run that
                  \* created it (0: it was there before), ids held
  run,            \* how many times the program has been started
  pc,             \* position in main
  data,           \* data.points (line 84)
  url,            \* the normalised endpoint (line 92)
  client,         \* the built client (lines 95-118)
  calls,          \* the store calls of this run, in order
  stdout,         \* println! lines of this run
  stderr,         \* eprintln! lines of this run
  total_batches,  \* line 133
  batch_idx,      \* enumerate() counter (line 135)
  pos,            \* points the chunk iterator has consumed
  error           \* how main ended: the Err it returned, or a panic

vars ==
  <<args, input, store, run, pc, data, url, client, calls, stdout, stderr,
    total_batches, batch_idx, pos, error>>

NoError == [kind |-> "none", context |-> "", batch |-> 0]
NoClient == [built |-> FALSE, compression |-> "none"]
NoUrl == UrlErr("unset")

\* The state of a freshly started process.
Fresh ==
  /\ pc = "load"
  /\ data = <<>>
  /\ url = NoUrl
  /\ client = NoClient
  /\ calls = <<>>
  /\ stdout = <<>>
  /\ stderr = <<>>
  /\ total_batches = 0
  /\ batch_idx = 0
  /\ pos = 0
  /\ error = NoError

Init ==
  /\ args \in ArgSets
  /\ input \in InputFiles
  /\ store \in [exists : BOOLEAN, created_in : {0}, points : {{}}]
  /\ run = 1
  /\ Fresh

\* main returns Err, or panics: nothing else of the run changes.
Fail(kind, context, batch) ==
  /\ pc' = "failed"
  /\ error' = [kind |-> kind, context |-> context, batch |-> batch]

Call(op, arg) == [op |-> op, status |-> "pending", result |-> FALSE, arg |-> arg]

\* The last call, resolved.
Resolved(status, result) ==
  [calls EXCEPT ![Len(calls)] = [@ EXCEPT !.status = status, !.result = result]]

\* ------------------------------------------------------------- lines 81-89
LoadFail ==
  /\ pc = "load"
  /\ input.kind # "ok"
  /\ Fail(IF input.kind = "unreadable" THEN "LoadError" ELSE "ParseError",
          IF input.kind = "unreadable" THEN "Failed to read input file"
          ELSE "Failed to parse input JSON", 0)
  /\ UNCHANGED <<args, input, store, run, data, url, client, calls, stdout,
                 stderr, total_batches, batch_idx, pos>>

\* A faulty variant: a batch size of 0 is refused when the run starts.
LoadOkBatchSizeChecked ==
  /\ pc = "load"
  /\ input.kind = "ok"
  /\ IF args.batch_size = 0
     THEN /\ Fail("ConfigError", "batch_size", 0)
          /\ UNCHANGED <<data, stderr>>
     ELSE /\ data' = input.points
          /\ stderr' = stderr \o <<"loaded", "settings">>
          /\ pc' = "normalize"
          /\ UNCHANGED error
  /\ UNCHANGED <<args, input, store, run, url, client, calls, stdout,
                 total_batches, batch_idx, pos>>

LoadOk ==
  /\ pc = "load"
  /\ input.kind = "ok"
  /\ data' = input.points
  /\ stderr' = stderr \o <<"loaded", "settings">>
  /\ pc' = "normalize"
  /\ UNCHANGED <<args, input, store, run, url, client, calls, stdout,
                 total_batches, batch_idx, pos, error>>

\* A faulty variant: the normalisation error is dropped and the endpoint used
\* as given.
NormalizeErrIgnored ==
  /\ pc = "normalize"
  /\ LET r == ensure_grpc_port(args.url)
     IN  /\ url' = IF r.ok THEN r ELSE NoUrl
         /\ stderr' = Append(stderr, "connecting")
         /\ pc' = "build"
  /\ UNCHANGED <<args, input, store, run, data, client, calls, stdout,
                 total_batches, batch_idx, pos, error>>

\* ------------------------------------------------------------- lines 92-93
Normalize ==
  /\ pc = "normalize"
  /\ LET r == ensure_grpc_port(args.url)
     IN  IF r.ok
         THEN /\ url' = r
              /\ stderr' = Append(stderr, "connecting")
              /\ pc' = "build"
              /\ UNCHANGED error
         ELSE /\ Fail("InvalidEndpoint", r.err, 0)
              /\ UNCHANGED <<url, stderr>>
  /\ UNCHANGED <<args, input, store, run, data, client, calls, stdout,
                 total_batches, batch_idx, pos>>

\* ------------------------------------------------------------ lines 95-118
\* A faulty variant: the requested encoding is handed to the builder as it is.
CompressionSettingAsRequested(c) == c

\* The compression the match arm sets on the builder.
CompressionSetting(c) == IF c = "none" THEN "none" ELSE "gzip"

CompressionWarning(c) ==
  CASE c = "zstd" -> <<"warn_zstd">>
    [] c = "lz4" -> <<"warn_lz4">>
    [] OTHER -> <<>>

Build ==
  /\ pc = "build"
  /\ stderr' = stderr \o CompressionWarning(args.compression)
  /\ \E built \in BOOLEAN :
       IF built
       THEN /\ client' = [built |-> TRUE,
                          compression |-> CompressionSetting(args.compression)]
            /\ pc' = "exists"
            /\ UNCHANGED error
       ELSE /\ Fail("ConnectionError", "Failed to create Qdrant client", 0)
            /\ UNCHANGED client
  /\ UNCHANGED <<args, input, store, run, data, url, calls, stdout,
                 total_batches, batch_idx, pos>>

\* ----------------------------------------------------------- lines 120-131
ExistsIssue ==
  /\ pc = "exists"
  /\ calls' = Append(calls, Call("exists", <<>>))
  /\ pc' = "exists_wait"
  /\ UNCHANGED <<args, input, store, run, data, url, client, stdout, stderr,
                 total_batches, batch_idx, pos, error>>

ExistsErr ==
  /\ pc = "exists_wait"
  /\ calls' = Resolved("err", FALSE)
  /\ Fail("ProvisioningError", "collection_exists", 0)
  /\ UNCHANGED <<args, input, store, run, data, url, client, stdout, stderr,
                 total_batches, batch_idx, pos>>

\* A faulty variant: the answer is ignored and the collection always created.
AfterExistsAlwaysCreate(exists) == "create"

\* Line 121: where main goes once the check has answered.
AfterExists(exists) == IF exists THEN "total" ELSE "create"

ExistsOk ==
  /\ pc = "exists_wait"
  /\ calls' = Resolved("ok", store.exists)
  /\ pc' = AfterExists(store.exists)
  /\ UNCHANGED <<args, input, store, run, data, url, client, stdout, stderr,
                 total_batches, batch_idx, pos, error>>

\* A faulty variant: the creation notice is printed with println!.
CreateIssueNoticeOnStdout ==
  /\ pc = "create"
  /\ stdout' = Append(stdout, [kind |-> "creating"])
  /\ calls' = Append(calls, Call("create", <<args.dimensions, "Cosine">>))
  /\ pc' = "create_wait"
  /\ UNCHANGED <<args, input, store, run, data, url, client, stderr,
                 total_batches, batch_idx, pos, error>>

CreateIssue ==
  /\ pc = "create"
  /\ stderr' = Append(stderr, "creating")
  /\ calls' = Append(calls, Call("create", <<args.dimensions, "Cosine">>))
  /\ pc' = "create_wait"
  /\ UNCHANGED <<args, input, store, run, data, url, client, stdout,
                 total_batches, batch_idx, pos, error>>

\* A faulty variant: the creation error is swallowed.
CreateErrIgnored ==
  /\ pc = "create_wait"
  /\ calls' = Resolved("err", FALSE)
  /\ pc' = "total"
  /\ UNCHANGED <<args, input, store, run, data, url, client, stdout, stderr,
                 total_batches, batch_idx, pos, error>>

CreateErr ==
  /\ pc = "create_wait"
  /\ calls' = Resolved("err", FALSE)
  /\ Fail("ProvisioningError", "Failed to create collection", 0)
  /\ UNCHANGED <<args, input, store, run, data, url, client, stdout, stderr,
                 total_batches, batch_idx, pos>>

CreateOk ==
  /\ pc = "create_wait"
  /\ calls' = Resolved("ok", TRUE)
  /\ store' = [store EXCEPT !.exists = TRUE, !.created_in = run]
  /\ pc' = "total"
  /\ UNCHANGED <<args, input, run, data, url, client, stdout, stderr,
                 total_batches, batch_idx, pos, error>>

\* ---------------------------------------------------------------- line 133
ComputeTotal ==
  /\ pc = "total"
  /\ \E overflow_checks \in BOOLEAN :
       LET r == TotalBatches(Len(data), args.batch_size, overflow_checks)
       IN  IF r.ok
           THEN /\ total_batches' = r.value
                /\ pc' = "loop"
                /\ UNCHANGED error
           ELSE /\ Fail("panic", "total_batches", 0)
                /\ UNCHANGED total_batches
  /\ UNCHANGED <<args, input, store, run, data, url, client, calls, stdout,
                 stderr, batch_idx, pos>>

\* ----------------------------------------------------------- lines 135-161
\* The chunk the iterator yields next.
Chunk == ChunksNext(data, pos, args.batch_size)

\* Line 160: the loop is over.
Done ==
  /\ pc = "loop"
  /\ args.batch_size > 0
  /\ Chunk = <<>>
  /\ stdout' = Append(stdout, [kind |-> "done", total_points |-> Len(data)])
  /\ pc' = "done"
  /\ UNCHANGED <<args, input, store, run, data, url, client, calls, stderr,
                 total_batches, batch_idx, pos, error>>

\* Lines 136-145: the unwrap panics on the first payload that does not convert.
\* chunks(0) panics as well.
BuildPanic ==
  /\ pc = "loop"
  /\ \/ args.batch_size = 0
     \/ \E i \in DOMAIN Chunk : ~PayloadTryFrom(Chunk[i].payload).ok
  /\ Fail("panic", "batch", batch_idx)
  /\ UNCHANGED <<args, input, store, run, data, url, client, calls, stdout,
                 stderr, total_batches, batch_idx, pos>>

Converts(p) == PayloadTryFrom(p.payload).ok

\* A faulty variant: points whose payload does not convert are left out of
\* the batch (filter_map) and the call is issued.
UpsertIssueSkipsUnconvertible ==
  /\ pc = "loop"
  /\ args.batch_size > 0
  /\ Chunk # <<>>
  /\ LET good == SelectSeq(Chunk, Converts)
     IN  calls' = Append(calls,
                    Call("upsert", [i \in DOMAIN good |-> PointStructNew(good[i])]))
  /\ pc' = "upsert_wait"
  /\ UNCHANGED <<args, input, store, run, data, url, client, stdout, stderr,
                 total_batches, batch_idx, pos, error>>

\* A faulty variant: the call is spawned and the loop goes on without
\* awaiting it.
UpsertIssueSpawned ==
  /\ pc = "loop"
  /\ args.batch_size > 0
  /\ Chunk # <<>>
  /\ \A i \in DOMAIN Chunk : PayloadTryFrom(Chunk[i].payload).ok
  /\ calls' = Append(calls,
                Call("upsert", [i \in DOMAIN Chunk |-> PointStructNew(Chunk[i])]))
  /\ batch_idx' = batch_idx + 1
  /\ pos' = pos + Len(Chunk)
  /\ UNCHANGED <<args, input, store, run, pc, data, url, client, stdout,
                 stderr, total_batches, error>>

\* Lines 136-149: the batch is built and the call is issued.
UpsertIssue ==
  /\ pc = "loop"
  /\ args.batch_size > 0
  /\ Chunk # <<>>
  /\ \A i \in DOMAIN Chunk : PayloadTryFrom(Chunk[i].payload).ok
  /\ calls' = Append(calls,
                Call("upsert", [i \in DOMAIN Chunk |-> PointStructNew(Chunk[i])]))
  /\ pc' = "upsert_wait"
  /\ UNCHANGED <<args, input, store, run, data, url, client, stdout, stderr,
                 total_batches, batch_idx, pos, error>>

\* Line 150: the index the error message names.
UpsertErrorBatch == batch_idx

\* A faulty variant: a failed batch makes the run delete what it has upserted.
UpsertErrRollback ==
  /\ pc = "upsert_wait"
  /\ calls' = Resolved("err", FALSE)
  /\ store' = [store EXCEPT !.points = {}]
  /\ Fail("UpsertError", "Failed to upsert batch", UpsertErrorBatch)
  /\ UNCHANGED <<args, input, run, data, url, client, stdout, stderr,
                 total_batches, batch_idx, pos>>

\* A faulty variant: a failed batch is skipped and the loop goes on.
UpsertErrSkipped ==
  /\ pc = "upsert_wait"
  /\ calls' = Resolved("err", FALSE)
  /\ batch_idx' = batch_idx + 1
  /\ pos' = pos + Len(Chunk)
  /\ pc' = "loop"
  /\ UNCHANGED <<args, input, store, run, data, url, client, stdout, stderr,
                 total_batches, error>>

UpsertErr ==
  /\ pc = "upsert_wait"
  /\ calls' = Resolved("err", FALSE)
  /\ Fail("UpsertError", "Failed to upsert batch", UpsertErrorBatch)
  /\ UNCHANGED <<args, input, store, run, data, url, client, stdout, stderr,
                 total_batches, batch_idx, pos>>

\* Lines 152-157.
ProgressLine ==
  [kind |-> "progress", batch |-> batch_idx + 1, total |-> total_batches,
   points |-> Len(Chunk)]

UpsertOk ==
  /\ pc = "upsert_wait"
  /\ calls' = Resolved("ok", TRUE)
  /\ store' = [store EXCEPT
                 !.points = @ \cup { calls[Len(calls)].arg[i].id :
                                       i \in DOMAIN calls[Len(calls)].arg }]
  /\ stdout' = Append(stdout, ProgressLine)
  /\ batch_idx' = batch_idx + 1
  /\ pos' = pos + Len(Chunk)
  /\ pc' = "loop"
  /\ UNCHANGED <<args, input, run, data, url, client, stderr, total_batches,
                 error>>

\* ------------------------------------------------------------------ runs
\* The program is started again with the same arguments and input, against
\* the store as the last run left it.
Rerun ==
  /\ pc \in {"done", "failed"}
  /\ run < MaxRuns
  /\ run' = run + 1
  /\ pc' = "load"
  /\ data' = <<>>
  /\ url' = NoUrl
  /\ client' = NoClient
  /\ calls' = <<>>
  /\ stdout' = <<>>
  /\ stderr' = <<>>
  /\ total_batches' = 0
  /\ batch_idx' = 0
  /\ pos' = 0
  /\ error' = NoError
  /\ UNCHANGED <<args, input, store>>

Next ==
  \/ LoadFail
  \/ LoadOk
  \/ Normalize
  \/ Build
  \/ ExistsIssue
  \/ ExistsErr
  \/ ExistsOk
  \/ CreateIssue
  \/ CreateErr
  \/ CreateOk
  \/ ComputeTotal
  \/ Done
  \/ BuildPanic
  \/ UpsertIssue
  \/ UpsertErr
  \/ UpsertOk
  \/ Rerun

Spec == Init /\ [][Next]_vars

\* ------------------------------------------------- endpoint normalisation
\* ensure_grpc_port alone, on every endpoint of UrlInputs: main after an
\* empty input file has loaded.
InitUrl ==
  /\ args \in [url : UrlInputs, batch_size : {1}, compression : {"none"},
               dimensions : {DefaultDimensions}]
  /\ input = [kind |-> "ok", points |-> <<>>]
  /\ store = [exists |-> FALSE, created_in |-> 0, points |-> {}]
  /\ run = 1
  /\ pc = "normalize"
  /\ data = <<>>
  /\ url = NoUrl
  /\ client = NoClient
  /\ calls = <<>>
  /\ stdout = <<>>
  /\ stderr = <<"loaded", "settings">>
  /\ total_batches = 0
  /\ batch_idx = 0
  /\ pos = 0
  /\ error = NoError

SpecUrl == InitUrl /\ [][Normalize]_vars

\* ---------------------------------------------------------------- claims
Range(f) == { f[i] : i \in DOMAIN f }

IsProgress(e) == e.kind = "progress"
IsUpsert(c) == c.op = "upsert"

\* The progress lines and the upsert calls of the run so far, in order.
Progress == SelectSeq(stdout, IsProgress)
Upserts == SelectSeq(calls, IsUpsert)

DoneLines == { i \in DOMAIN stdout : stdout[i].kind = "done" }

\* How many of the first j calls are upsert calls: the 1-based batch of call j.
BatchOfCall(j) == Cardinality({ i \in 1..j : calls[i].op = "upsert" })

CeilDiv(n, b) == (n \div b) + (IF n % b = 0 THEN 0 ELSE 1)

RECURSIVE SumPoints(_)
SumPoints(lines) ==
  IF lines = <<>> THEN 0 ELSE Head(lines).points + SumPoints(Tail(lines))

\* C1: once the upsert call of batch k has failed, that call is the last store
\* call of the run (no later batch, no retry), every progress line carries an
\* index below k, no done line is printed, and the run has failed.
C1_FailureShortCircuit ==
  \A j \in DOMAIN calls :
    (calls[j].op = "upsert" /\ calls[j].status = "err") =>
      /\ j = Len(calls)
      /\ \A e \in Range(stdout) : e.kind = "progress" /\ e.batch < BatchOfCall(j)
      /\ Len(Progress) = BatchOfCall(j) - 1
      /\ pc = "failed"

C1_Witness ==
  /\ pc = "failed"
  /\ error.kind = "UpsertError"
  /\ Len(Progress) = 2
  /\ Len(Upserts) = 3
  /\ Len(data) > pos + Len(Chunk)

\* C2 (as claimed): the progress lines carry the indices 1, 2, 3, ... in order,
\* one per successful upsert call, each between 1 and the total it reports,
\* and a run that prints the done line has printed exactly the indices 1..total.
C2_ProgressIndices ==
  /\ \A i \in DOMAIN Progress :
       /\ Progress[i].batch = i
       /\ 1 <= Progress[i].batch
       /\ Progress[i].batch <= Progress[i].total
  /\ Len(Progress) = Cardinality({ j \in DOMAIN calls :
                        calls[j].op = "upsert" /\ calls[j].status = "ok" })
  /\ pc = "done" => \A i \in DOMAIN Progress : Len(Progress) = Progress[i].total

\* C3 (as claimed): the computed total is ceil(N / B), every progress line
\* reports it, and a run that ends well has iterated that many chunks.
C3_TotalIsCeil ==
  (pc \in {"loop", "upsert_wait", "done"} /\ args.batch_size > 0) =>
    /\ total_batches = CeilDiv(Len(data), args.batch_size)
    /\ \A i \in DOMAIN Progress :
         Progress[i].total = CeilDiv(Len(data), args.batch_size)
    /\ pc = "done" => Len(Upserts) = total_batches

\* C4: with N points and batch size B > 0, the i-th progress line reports B
\* points unless it is the line of the last batch, ceil(N / B), which reports
\* N mod B points (B when that is 0); the counts of the first m lines sum to
\* min(N, m * B), so that a run that ends well has reported ceil(N / B) batches
\* whose point counts sum to N; with N = 0 there is no progress line.
C4_PointCounts ==
  LET n == Len(data)
      b == args.batch_size
  IN  /\ \A i \in DOMAIN Progress :
           /\ b > 0
           /\ i <= CeilDiv(n, b)
           /\ Progress[i].points =
                IF i < CeilDiv(n, b) \/ n % b = 0 THEN b ELSE n % b
      /\ SumPoints(Progress) = Min(n, Len(Progress) * b)
      /\ pc = "done" =>
           /\ SumPoints(Progress) = n
           /\ Len(Progress) = CeilDiv(n, b)
      /\ n = 0 => Progress = <<>>

C4_Witness ==
  /\ pc = "done"
  /\ Len(data) = 5
  /\ args.batch_size = 2
  /\ Len(Progress) = 3
  /\ Progress[1].points = 2
  /\ Progress[3].points = 1

\* C5 (as claimed): an UpsertError names the failed batch in the numbering of
\* the progress lines: after k-1 progress lines it names batch k.
C5_ErrorIndexOneBased ==
  error.kind = "UpsertError" => error.batch = Len(Progress) + 1

\* C6: the existence check is the first store call of a run and is issued
\* once; when it reports the collection present there is no creation call and
\* provisioning does not fail; when it reports it absent, exactly one creation
\* call follows, with the declared dimensionality and cosine distance; a run
\* against a store where the collection exists already, such as a second run
\* after the first created it, issues no creation call.
C6_ProvisioningIdempotent ==
  LET creates == { j \in DOMAIN calls : calls[j].op = "create" }
      answered == calls # <<>> /\ calls[1].status = "ok"
  IN  /\ \A j \in DOMAIN calls : calls[j].op = "exists" <=> j = 1
      /\ creates \subseteq {2}
      /\ (answered /\ calls[1].result) =>
           /\ creates = {}
           /\ error.kind # "ProvisioningError"
           /\ pc \notin {"create", "create_wait"}
      /\ (answered /\ ~calls[1].result /\ pc # "create") =>
           /\ creates = {2}
           /\ calls[2].arg = <<args.dimensions, "Cosine">>
      /\ (store.exists /\ store.created_in # run) => creates = {}

C6_Witness ==
  /\ run = 2
  /\ store.created_in = 1
  /\ pc = "done"
  /\ Len(calls) > 1
  /\ calls[1].result

\* C7: an upsert call is issued only after the existence check has answered
\* and either reported the collection present or been followed by a creation
\* call that succeeded; when the existence check or the creation call fails
\* the run has failed with no upsert call and nothing on the output stream.
C7_ProvisioningPrecedesUpsert ==
  /\ Upserts # <<>> =>
       /\ calls[1].op = "exists" /\ calls[1].status = "ok"
       /\ \/ calls[1].result
          \/ calls[2].op = "create" /\ calls[2].status = "ok"
  /\ (\E j \in DOMAIN calls :
        calls[j].op \in {"exists", "create"} /\ calls[j].status = "err") =>
       /\ Upserts = <<>>
       /\ stdout = <<>>
       /\ pc = "failed"

C7_Witness ==
  /\ Len(Upserts) = 2
  /\ calls[2].op = "create"
  /\ calls[2].status = "ok"
  /\ Len(Progress) = 1

\* C8 (as claimed): an endpoint that parses and can carry a port is normalised
\* to port 6334 when its text has no port and keeps the port of its text
\* otherwise, with scheme, host and path as parsed; any other endpoint fails
\* with InvalidEndpoint and no client is built.
C8_EndpointNormalization ==
  pc # "normalize" =>
    LET text == args.url
        parsed == UrlParse(text)
    IN  IF parsed.ok /\ UrlSetPort(parsed, GrpcPort).ok
        THEN /\ pc # "failed"
             /\ url.ok
             /\ url.port = (IF text.port = <<>> THEN <<GrpcPort>> ELSE text.port)
             /\ url.scheme = parsed.scheme
             /\ url.host = parsed.host
             /\ url.path = parsed.path
        ELSE /\ pc = "failed"
             /\ error.kind = "InvalidEndpoint"
             /\ ~client.built

\* C9: with batch size 0 the run never enters the upsert loop: it issues no
\* upsert call, prints nothing on the output stream and does not end well.
C9_ZeroBatchRejected ==
  args.batch_size = 0 =>
    /\ pc \notin {"loop", "upsert_wait", "done"}
    /\ Upserts = <<>>
    /\ stdout = <<>>

C9_Witness ==
  /\ args.batch_size = 0
  /\ pc = "failed"
  /\ error = [kind |-> "panic", context |-> "total_batches", batch |-> 0]
  /\ Len(data) = 2
  /\ Len(calls) = 2

\* C10 (as claimed): a run on an accepted dataset with batch size B > 0 whose
\* store calls all succeed ends well: every point has gone to exactly one
\* upsert call and the output ends with the one done line, carrying N. Stated
\* for the runs whose batch-count arithmetic stays within the word.
C10_FullTransfer ==
  ( /\ input.kind = "ok"
    /\ args.batch_size > 0
    /\ Len(data) + args.batch_size <= MaxWord
    /\ calls # <<>>
    /\ \A j \in DOMAIN calls : calls[j].status = "ok"
    /\ pc \in {"done", "failed"} ) =>
      /\ pc = "done"
      /\ \A i \in DOMAIN data :
           Cardinality({ j \in DOMAIN Upserts :
             \E m \in DOMAIN Upserts[j].arg : Upserts[j].arg[m].id = data[i].id }) = 1
      /\ DoneLines = {Len(stdout)}
      /\ stdout[Len(stdout)].total_points = Len(data)

\* Provisioning is over and went well: the existence check answered, and the
\* creation call, when there is one, succeeded.
Provisioned ==
  /\ calls # <<>>
  /\ calls[1].status = "ok"
  /\ calls[1].result \/ (Len(calls) >= 2 /\ calls[2].status = "ok")

\* C11: when the input cannot be read or parsed, when the endpoint cannot be
\* normalised, or when the client cannot be built, the run fails without any
\* store call and with nothing on the output stream; without a normalised
\* endpoint no client is built.
C11_StageFailuresAbort ==
  /\ input.kind # "ok" =>
       /\ calls = <<>>
       /\ stdout = <<>>
       /\ pc \in {"load", "failed"}
  /\ ~ensure_grpc_port(args.url).ok =>
       /\ calls = <<>>
       /\ stdout = <<>>
       /\ ~client.built
       /\ pc \in {"load", "normalize", "failed"}
  /\ error.kind \in {"LoadError", "ParseError", "InvalidEndpoint", "ConnectionError"} =>
       /\ calls = <<>>
       /\ stdout = <<>>
       /\ pc = "failed"

C11_Witness ==
  /\ pc = "failed"
  /\ error.kind = "InvalidEndpoint"
  /\ stderr = <<"loaded", "settings">>
  /\ Len(data) = 2

\* C12: a run on an input of 0 points with batch size B > 0 issues no upsert
\* call and prints no progress line, computes a total of 0 batches, and once
\* provisioning has gone well it ends with the done line, carrying 0, as its
\* only output.
C12_EmptyDataset ==
  (input.kind = "ok" /\ input.points = <<>> /\ args.batch_size > 0) =>
    /\ Upserts = <<>>
    /\ Progress = <<>>
    /\ total_batches = 0
    /\ Provisioned => pc \in {"total", "loop", "done"}
    /\ pc = "done" => stdout = <<[kind |-> "done", total_points |-> 0]>>
    /\ pc = "loop" => Chunk = <<>>

C12_Witness ==
  /\ pc = "done"
  /\ data = <<>>
  /\ args.batch_size = MaxWord
  /\ Len(calls) = 2
  /\ stdout = <<[kind |-> "done", total_points |-> 0]>>

\* The compression warnings on the diagnostic channel.
IsCompressionWarning(line) == line \in {"warn_zstd", "warn_lz4"}
CompressionWarnings == SelectSeq(stderr, IsCompressionWarning)

\* C13: whatever the mode, the client can be built; a client built for zstd or
\* lz4 carries the gzip setting, the one a client built for gzip carries, and
\* one warning naming the mode has been written; a client built for none
\* carries no compression; none and gzip write no warning. The rest of the
\* pipeline reads the client, which is the same for zstd, lz4 and gzip.
C13_CompressionSubstitution ==
  /\ pc = "build" => ENABLED (Build /\ client'.built)
  /\ client.built =>
       /\ args.compression \in {"gzip", "zstd", "lz4"} =>
            client = [built |-> TRUE, compression |-> "gzip"]
       /\ args.compression = "none" =>
            client = [built |-> TRUE, compression |-> "none"]
  /\ (client.built \/ error.kind = "ConnectionError") =>
       CompressionWarnings =
         CASE args.compression = "zstd" -> <<"warn_zstd">>
           [] args.compression = "lz4" -> <<"warn_lz4">>
           [] OTHER -> <<>>
  /\ ~(client.built \/ error.kind = "ConnectionError") => CompressionWarnings = <<>>

C13_Witness ==
  /\ args.compression = "zstd"
  /\ client = [built |-> TRUE, compression |-> "gzip"]
  /\ CompressionWarnings = <<"warn_zstd">>
  /\ pc = "done"
  /\ Len(Progress) = 2

\* The store calls in flight.
InFlight == { j \in DOMAIN calls : calls[j].status = "pending" }

\* C14: at most one store call is in flight, and it is the last one issued:
\* every call before it has resolved successfully; when the upsert call of
\* batch k+1 has been issued, the progress lines of batches 1..k are out, and
\* none of batch k+1 is out before its call has resolved successfully.
C14_SequentialCalls ==
  /\ Cardinality(InFlight) <= 1
  /\ \A j \in DOMAIN calls : j < Len(calls) => calls[j].status = "ok"
  /\ \A j \in DOMAIN calls :
       calls[j].op = "upsert" =>
         /\ Len(Progress) >= BatchOfCall(j) - 1
         /\ calls[j].status # "ok" => Len(Progress) = BatchOfCall(j) - 1
  /\ (pc \in {"exists_wait", "create_wait", "upsert_wait"}) <=> InFlight # {}

C14_Witness ==
  /\ pc = "upsert_wait"
  /\ InFlight = {Len(calls)}
  /\ Len(Upserts) = 3
  /\ Len(Progress) = 2
  /\ calls[2].op = "create"

RECURSIVE ConcatArgs(_)
ConcatArgs(cs) ==
  IF cs = <<>> THEN <<>> ELSE Head(cs).arg \o ConcatArgs(Tail(cs))

\* C15: the k-th upsert call carries the points at positions (k-1)*B+1 ..
\* min(k*B, N) of the dataset (counted from 1), in input order, each with its
\* id, its vector and the document of its payload; no chunk is empty or longer
\* than B, only the one that reaches the end of the dataset may be shorter,
\* and in a run that ends well the chunks, in call order, make up the dataset.
C15_PartitionShape ==
  LET n == Len(data)
      b == args.batch_size
  IN  /\ \A k \in DOMAIN Upserts :
           LET first == (k - 1) * b + 1
               last == Min(k * b, n)
               chunk == Upserts[k].arg
           IN  /\ b > 0
               /\ first <= last
               /\ Len(chunk) = last - first + 1
               /\ Len(chunk) <= b
               /\ Len(chunk) < b => last = n
               /\ \A m \in DOMAIN chunk :
                    /\ chunk[m].id = data[first + m - 1].id
                    /\ chunk[m].vector = data[first + m - 1].vector
                    /\ data[first + m - 1].payload.kind = "object"
                    /\ chunk[m].payload = data[first + m - 1].payload.val
      /\ pc = "done" =>
           /\ Len(Upserts) = CeilDiv(n, b)
           /\ LET sent == ConcatArgs(Upserts)
              IN  [i \in DOMAIN sent |-> sent[i].id] = [i \in DOMAIN data |-> data[i].id]

C15_Witness ==
  /\ pc = "done"
  /\ Len(data) = 5
  /\ args.batch_size = 2
  /\ Len(Upserts) = 3
  /\ Len(Upserts[3].arg) = 1
  /\ Upserts[3].arg[1].id = 5

\* The diagnostic texts of lines 87, 88, 93, 107, 111 and 122.
Diagnostics ==
  {"loaded", "settings", "connecting", "warn_zstd", "warn_lz4", "creating"}

\* C16: the output stream holds progress lines and at most one done line,
\* which is its last line; the diagnostic channel holds diagnostic texts only,
\* and every notice the run has written so far is there: the two load notices,
\* the connection target, the compression warning and the creation notice.
C16_ChannelSeparation ==
  /\ \A i \in DOMAIN stdout : stdout[i].kind \in {"progress", "done"}
  /\ DoneLines \subseteq {Len(stdout)}
  /\ \A i \in DOMAIN stderr : stderr[i] \in Diagnostics
  /\ (pc # "load" /\ input.kind = "ok") =>
       (Len(stderr) >= 2 /\ SubSeq(stderr, 1, 2) = <<"loaded", "settings">>)
  /\ url.ok => (Len(stderr) >= 3 /\ stderr[3] = "connecting")
  /\ (client.built /\ args.compression = "zstd") => "warn_zstd" \in Range(stderr)
  /\ (client.built /\ args.compression = "lz4") => "warn_lz4" \in Range(stderr)
  /\ (\E j \in DOMAIN calls : calls[j].op = "create") =>
       stderr[Len(stderr)] = "creating"
  /\ Len(stdout) = Len(Progress) + Cardinality(DoneLines)

C16_Witness ==
  /\ pc = "done"
  /\ stderr = <<"loaded", "settings", "connecting", "warn_lz4", "creating">>
  /\ Len(stdout) = 3
  /\ stdout[3].kind = "done"

IsAcceptedUpsert(c) == c.op = "upsert" /\ c.status = "ok"

\* The points the store has accepted through this run's upsert calls, in order.
Accepted == ConcatArgs(SelectSeq(calls, IsAcceptedUpsert))

\* C17: with m progress lines out, the points accepted through the run's
\* upsert calls are the first min(N, m*B) points of the dataset, each once,
\* and the store holds them (and, in a first run, nothing else), also after
\* the run has failed; a collection the run has created is still there.
C17_PrefixNoRollback ==
  LET m == Len(Progress)
      prefix == SubSeq(data, 1, Min(Len(data), m * args.batch_size))
  IN  /\ [i \in DOMAIN Accepted |-> Accepted[i].id] =
           [i \in DOMAIN prefix |-> prefix[i].id]
      /\ { prefix[i].id : i \in DOMAIN prefix } \subseteq store.points
      /\ run = 1 => store.points = { prefix[i].id : i \in DOMAIN prefix }
      /\ (\E j \in DOMAIN calls : calls[j].op = "create" /\ calls[j].status = "ok") =>
           (store.exists /\ store.created_in = run)

C17_Witness ==
  /\ pc = "failed"
  /\ error.kind = "UpsertError"
  /\ run = 1
  /\ store.created_in = 1
  /\ store.points = {1, 2, 3, 4}
  /\ Len(data) = 5
  /\ Len(Progress) = 2

\* C18: with batch size 0 nothing stops the run before the store: a failure
\* with no store call is a load, parse, endpoint or client failure, and each
\* earlier step can be taken as with any batch size; the panic comes at the
\* batch count, after the input was loaded, the client built, the existence
\* check answered and, for an absent collection, the creation call succeeded,
\* and with no upsert call; the collection the run created stays behind.
C18_ZeroBatchDetectedLate ==
  args.batch_size = 0 =>
    /\ (pc = "failed" /\ calls = <<>>) =>
         error.kind \in {"LoadError", "ParseError", "InvalidEndpoint", "ConnectionError"}
    /\ (pc = "load" /\ input.kind = "ok") => ENABLED LoadOk
    /\ pc = "exists" => ENABLED ExistsIssue
    /\ pc = "create" => ENABLED CreateIssue
    /\ error.kind = "panic" =>
         /\ error.context = "total_batches"
         /\ data = input.points
         /\ client.built
         /\ Provisioned
         /\ Upserts = <<>>
         /\ (Len(calls) = 2 => store.exists /\ store.created_in = run)

C18_Witness ==
  /\ args.batch_size = 0
  /\ pc = "failed"
  /\ error.kind = "panic"
  /\ run = 1
  /\ store.exists
  /\ store.created_in = 1
  /\ store.points = {}
  /\ Len(calls) = 2

\* The positions of the points whose payload is not a JSON object.
Unconvertible == { i \in DOMAIN data : data[i].payload.kind # "object" }

\* C19: when some point's payload does not convert, with the first such point
\* in batch k (batch size B > 0), no upsert call is issued for batch k or a
\* later one and no done line is printed; the run aborts while building batch
\* k, after the calls of batches 1..k-1 have all succeeded and their progress
\* lines are out. A run whose payloads all convert never aborts there.
C19_PayloadAbort ==
  /\ (Unconvertible # {} /\ args.batch_size > 0) =>
       LET f == CHOOSE i \in Unconvertible : \A j \in Unconvertible : i <= j
           k == CeilDiv(f, args.batch_size)
       IN  /\ Len(Upserts) <= k - 1
           /\ pc # "done"
           /\ DoneLines = {}
           /\ (error.kind = "panic" /\ error.context = "batch") =>
                /\ Len(Upserts) = k - 1
                /\ \A j \in DOMAIN calls : calls[j].status = "ok"
                /\ Len(Progress) = k - 1
                /\ pos = (k - 1) * args.batch_size
  /\ Unconvertible = {} => ~(error.kind = "panic" /\ error.context = "batch")

C19_Witness ==
  /\ pc = "failed"
  /\ error.kind = "panic"
  /\ error.context = "batch"
  /\ Unconvertible = {5}
  /\ args.batch_size = 2
  /\ Len(Progress) = 2
  /\ Len(Upserts) = 2

====
